---- MODULE Spec2Model ----
(***************************************************************************)
(* domain-processor: the subscription callback on todo.commands, the       *)
(* Processor's three handlers and the publish on todo.events.              *)
(*                                                                         *)
(* The sources hold two Processors.  The one wired by main                 *)
(* (NewProcessor(js, db, logger), handlers.go:263-367) runs one SQL        *)
(* statement per command and then publishes; the one wired by app.Run      *)
(* (NewProcessor(js, logger), handlers.go:19-92) publishes only.  The      *)
(* variable `wired` records which of the two the process was started with. *)
(*                                                                         *)
(* A handler is split where it blocks on I/O: the store statement, the     *)
(* publish, the acknowledgment.  Callbacks run in the goroutines of Slots. *)
(***************************************************************************)
EXTENDS Integers, Sequences, FiniteSets, TLC

VARIABLES
    wired,      \* "main": Processor with db (handlers.go:269), "Run": without (handlers.go:24)
    todos,      \* table todos.todo: row key -> row
    nextId,     \* number of ids the store has handed out so far, plus one
    uuids,      \* number of values uuid.NewString() has returned so far
    delivered,  \* number of deliveries made on todo.commands so far
    sent,       \* number of distinct messages published on todo.commands so far
    cb          \* cb[g]: the callback invocation running (or last run) in goroutine g

vars == <<wired, todos, nextId, uuids, delivered, sent, cb>>

-----------------------------------------------------------------------------
(* Bounds and value pools *)

MaxDeliveries == 2

Slots == {"g1", "g2"}

Fields == {"title", "description", "completed", "dueDate", "priority", "tags"}

-----------------------------------------------------------------------------
(* Optional values: a Go pointer / nil slice / SQL NULL is [some |-> FALSE]. *)

Some(x) == [some |-> TRUE, v |-> x]

NoStr == [some |-> FALSE, v |-> ""]

NoBool == [some |-> FALSE, v |-> FALSE]

NoInt == [some |-> FALSE, v |-> 0]

NoTags == [some |-> FALSE, v |-> <<>>]

NoFields ==
    [title |-> NoStr, description |-> NoStr, completed |-> NoBool,
     dueDate |-> NoStr, priority |-> NoInt, tags |-> NoTags]

(* Identifiers and instants are kept by origin. *)
EmptyId == [src |-> "", n |-> 0]

DbId(n) == [src |-> "db", n |-> n]

Uuid(n) == [src |-> "uuid", n |-> n]

ZeroTime == [src |-> "zero", n |-> 0]

CreatedAt(n) == [src |-> "created_at", n |-> n]

Now(n) == [src |-> "now", n |-> n]

-----------------------------------------------------------------------------
(* Messages on todo.commands.  baseOk: the bytes decode into BaseCommand;  *)
(* bad: the variant fields whose JSON value has the wrong type, so that    *)
(* decoding the concrete command reports an error and leaves them zero.    *)

Msg(type, id, userId, f, bad) ==
    [baseOk |-> TRUE, type |-> type, id |-> id, userId |-> userId, f |-> f, bad |-> bad]

Garbage ==
    [baseOk |-> FALSE, type |-> "", id |-> EmptyId, userId |-> "", f |-> NoFields, bad |-> {}]

FullFields ==
    [title |-> Some("a"), description |-> Some("d"), completed |-> NoBool,
     dueDate |-> Some("2026"), priority |-> Some(1), tags |-> Some(<<"x">>)]

TitleOnly == [NoFields EXCEPT !.title = Some("a")]

PatchA ==
    [NoFields EXCEPT !.title = Some("b"), !.completed = Some(TRUE), !.priority = Some(2)]

PatchB ==
    [NoFields EXCEPT !.description = Some("e"), !.dueDate = Some("2027"),
                     !.tags = Some(<<"y">>)]

CreateMsgs ==
    { Msg("CreateTodo", EmptyId, "u1", FullFields, {}),
      Msg("CreateTodo", EmptyId, "u2", TitleOnly, {}),
      Msg("CreateTodo", EmptyId, "u1", FullFields, {"title"}) }

UpdateMsgs ==
    { Msg("UpdateTodo", DbId(1), "u1", PatchA, {}),
      Msg("UpdateTodo", DbId(1), "u1", PatchB, {}),
      Msg("UpdateTodo", DbId(1), "u2", PatchA, {}),
      Msg("UpdateTodo", DbId(2), "u1", PatchB, {}),
      Msg("UpdateTodo", DbId(1), "u1", PatchA, {"completed"}) }

DeleteMsgs ==
    { Msg("DeleteTodo", DbId(1), "u1", NoFields, {}),
      Msg("DeleteTodo", DbId(1), "u2", NoFields, {}) }

OtherMsgs == { Msg("RenameTodo", DbId(1), "u1", NoFields, {}), Garbage }

Messages == CreateMsgs \cup UpdateMsgs \cup DeleteMsgs \cup OtherMsgs

-----------------------------------------------------------------------------
(* Decoding.  json.Unmarshal into the concrete command keeps the fields it *)
(* could decode and leaves the others at their zero value; the callback    *)
(* discards its error (handlers.go:416, 420, 424).                         *)

Decoded(m) == [f \in Fields |-> IF f \in m.bad THEN NoFields[f] ELSE m.f[f]]

DecodeError(m) == m.bad # {}

derefString(s) == IF s.some THEN s.v ELSE ""

(* derefBool with the default inverted. *)
derefBoolDefaultTrue(b) == IF b.some THEN b.v ELSE TRUE

derefBool(b) == IF b.some THEN b.v ELSE FALSE

derefStringSlice(s) == IF s.some THEN s ELSE NoTags

(* dto.CreateTodoCommand: title and description are plain strings. *)
CreateTodoCommand(m) ==
    [id |-> m.id, userId |-> m.userId,
     title |-> derefString(Decoded(m).title),
     description |-> derefString(Decoded(m).description),
     dueDate |-> Decoded(m).dueDate, priority |-> Decoded(m).priority,
     tags |-> Decoded(m).tags]

(* dto.UpdateTodoCommand: every variant field is a pointer. *)
UpdateTodoCommand(m) ==
    [id |-> m.id, userId |-> m.userId,
     title |-> Decoded(m).title, description |-> Decoded(m).description,
     completed |-> Decoded(m).completed, dueDate |-> Decoded(m).dueDate,
     priority |-> Decoded(m).priority, tags |-> Decoded(m).tags]

DeleteTodoCommand(m) == [id |-> m.id, userId |-> m.userId]

(* Route with the update and delete branches exchanged. *)
RouteSwapped(type) ==
    CASE type = "CreateTodo" -> "create"
      [] type = "UpdateTodo" -> "delete"
      [] type = "DeleteTodo" -> "update"
      [] OTHER -> "none"

(* Route with a default case that falls into the create branch. *)
RouteDefaultCreate(type) ==
    CASE type = "UpdateTodo" -> "update"
      [] type = "DeleteTodo" -> "delete"
      [] OTHER -> "create"

(* The switch on base.Type: the handler a decoded envelope is routed to. *)
Route(type) ==
    CASE type = "CreateTodo" -> "create"
      [] type = "UpdateTodo" -> "update"
      [] type = "DeleteTodo" -> "delete"
      [] OTHER -> "none"

(* A callback that checks the error of decoding the concrete command and *)
(* drops the message when there is one.                                   *)
RoutedCheckingDecode(m) == IF m.baseOk /\ m.bad = {} THEN Route(m.type) ELSE "none"

(* What the callback does with a message before any handler runs. *)
Routed(m) == IF m.baseOk THEN Route(m.type) ELSE "none"

-----------------------------------------------------------------------------
(* Events *)

NoEvent ==
    [type |-> "", id |-> EmptyId, userId |-> "", timestamp |-> ZeroTime,
     title |-> "", description |-> "", completed |-> FALSE,
     dueDate |-> NoStr, priority |-> NoInt, tags |-> NoTags]

(* TodoCreatedEvent without evt.UserID = cmd.UserID. *)
TodoCreatedEventNoUser(cmd, id, ts) ==
    [NoEvent EXCEPT !.type = "TodoCreated", !.id = id,
                    !.timestamp = ts, !.title = cmd.title,
                    !.description = cmd.description, !.dueDate = cmd.dueDate,
                    !.priority = cmd.priority, !.tags = cmd.tags]

TodoCreatedEvent(cmd, id, ts) ==
    [NoEvent EXCEPT !.type = "TodoCreated", !.id = id, !.userId = cmd.userId,
                    !.timestamp = ts, !.title = cmd.title,
                    !.description = cmd.description, !.dueDate = cmd.dueDate,
                    !.priority = cmd.priority, !.tags = cmd.tags]

(* TodoUpdatedEvent without UserID in its BaseEvent. *)
TodoUpdatedEventNoUser(cmd, ts) ==
    [NoEvent EXCEPT !.type = "TodoUpdated", !.id = cmd.id,
                    !.timestamp = ts, !.title = derefString(cmd.title),
                    !.description = derefString(cmd.description),
                    !.completed = derefBool(cmd.completed),
                    !.dueDate = cmd.dueDate, !.priority = cmd.priority,
                    !.tags = derefStringSlice(cmd.tags)]

TodoUpdatedEvent(cmd, ts) ==
    [NoEvent EXCEPT !.type = "TodoUpdated", !.id = cmd.id, !.userId = cmd.userId,
                    !.timestamp = ts, !.title = derefString(cmd.title),
                    !.description = derefString(cmd.description),
                    !.completed = derefBool(cmd.completed),
                    !.dueDate = cmd.dueDate, !.priority = cmd.priority,
                    !.tags = derefStringSlice(cmd.tags)]

(* TodoDeletedEvent carrying the discriminant of the Updated event. *)
TodoDeletedEventWrongType(cmd, ts) ==
    [NoEvent EXCEPT !.type = "TodoUpdated", !.id = cmd.id, !.userId = cmd.userId,
                    !.timestamp = ts]

TodoDeletedEvent(cmd, ts) ==
    [NoEvent EXCEPT !.type = "TodoDeleted", !.id = cmd.id, !.userId = cmd.userId,
                    !.timestamp = ts]

-----------------------------------------------------------------------------
(* The store: the three statements of the Processor wired by main. *)

DbNow == [src |-> "db_now", n |-> 0]

(* INSERT INTO todos.todo (user_id, title, description, due_date, priority, tags) *)
InsertedRow(cmd, n) ==
    [userId |-> cmd.userId, title |-> Some(cmd.title),
     description |-> Some(cmd.description), completed |-> NoBool,
     dueDate |-> cmd.dueDate, priority |-> cmd.priority, tags |-> cmd.tags,
     createdAt |-> CreatedAt(n), updatedAt |-> ZeroTime]

(* SET column = $n without COALESCE: a NULL parameter overwrites the column. *)
Overwrite(param, column) == param

COALESCE(param, column) == IF param.some THEN param ELSE column

(* WHERE id = $1 alone: the row is selected whoever owns it. *)
MatchesIdOnly(tbl, cmd) == {n \in DOMAIN tbl : DbId(n) = cmd.id}

(* WHERE id = $7 AND user_id = $8, and the DELETE's WHERE id = $1 AND user_id = $2 *)
Matches(tbl, cmd) == {n \in DOMAIN tbl : DbId(n) = cmd.id /\ tbl[n].userId = cmd.userId}

UpdatedRow(row, cmd) ==
    [row EXCEPT !.title = COALESCE(cmd.title, row.title),
                !.description = COALESCE(cmd.description, row.description),
                !.completed = COALESCE(cmd.completed, row.completed),
                !.dueDate = COALESCE(cmd.dueDate, row.dueDate),
                !.priority = COALESCE(cmd.priority, row.priority),
                !.tags = COALESCE(cmd.tags, row.tags),
                !.updatedAt = DbNow]

UpdateTodos(tbl, cmd) ==
    [n \in DOMAIN tbl |-> IF n \in Matches(tbl, cmd) THEN UpdatedRow(tbl[n], cmd) ELSE tbl[n]]

DeleteTodos(tbl, cmd) == [n \in DOMAIN tbl \ Matches(tbl, cmd) |-> tbl[n]]

-----------------------------------------------------------------------------
(* A callback invocation.  pc: where it stands; kind: the handler it was   *)
(* routed to; db, rows, rowId: how its statement ended, the rows it        *)
(* affected and the key RETURNING gave; calls: its calls of publishEvent;  *)
(* tries: its calls of js.Publish; pub: how publishEvent ended; pubs: what *)
(* it has put on the broker; returned: its handler has returned; err: the  *)
(* error the handler handed back ("nil" also for a handler without a       *)
(* result); acks, naks: its m.Ack() and m.Nak() calls.                     *)

(* The streams app.Run ensures, each with the subjects it captures. *)
Streams ==
    [todo_commands |-> {"todo.commands"}, todo_events |-> {"todo.events"}]

(* js.Subscribe("todo.commands", ...) bound to the stream todo_commands:  *)
(* the callback receives what is published on that subject and kept by    *)
(* that stream.                                                           *)
Consumed(subject) == subject = "todo.commands" /\ subject \in Streams.todo_commands

Idle ==
    [pc |-> "idle", msg |-> Garbage, seq |-> 0, no |-> 0, kind |-> "none",
     evt |-> NoEvent, dbCalls |-> 0, db |-> "", rows |-> 0, rowId |-> 0,
     calls |-> 0, tries |-> 0, pub |-> "", pubs |-> <<>>,
     returned |-> FALSE, err |-> "nil",
     acks |-> 0, naks |-> 0]

InFlight(c) == c.pc \in {"store", "publish", "ack"}

(* The goroutines are interchangeable: a delivery takes the first free one. *)
Before(g, h) == g = h \/ g = "g1"

(* The handlers of the Processor wired by app.Run (handlers.go:28-79):    *)
(* the event is built from the command alone, the id of a created todo is *)
(* uuid.NewString(), the timestamp time.Now().                            *)
EmittedEvent(kind, m, no, u) ==
    CASE kind = "create" -> TodoCreatedEvent(CreateTodoCommand(m), Uuid(u), Now(no))
      [] kind = "update" -> TodoUpdatedEvent(UpdateTodoCommand(m), Now(no))
      [] kind = "delete" -> TodoDeletedEvent(DeleteTodoCommand(m), Now(no))
      [] OTHER -> NoEvent

(* The callback of SubscribeToCommands up to its first blocking call:     *)
(* decode the envelope, switch on its type, decode the command, enter the *)
(* handler.                                                               *)
Receive(g, m, seq) ==
    /\ delivered < MaxDeliveries
    /\ ~InFlight(cb[g])
    /\ \A h \in Slots : ~InFlight(cb[h]) => Before(g, h)
    /\ delivered' = delivered + 1
    /\ LET kind == Routed(m)
           c == [Idle EXCEPT !.msg = m, !.seq = seq, !.no = delivered + 1, !.kind = kind]
       IN  /\ cb' = [cb EXCEPT ![g] =
                 IF kind = "none" THEN [c EXCEPT !.pc = "ack"]
                 ELSE IF wired = "main" THEN [c EXCEPT !.pc = "store"]
                 ELSE [c EXCEPT !.pc = "publish",
                                !.evt = EmittedEvent(kind, m, delivered + 1, uuids + 1)]]
           /\ uuids' = IF wired = "Run" /\ kind = "create" THEN uuids + 1 ELSE uuids
    /\ UNCHANGED <<wired, todos, nextId>>

(* A message published on todo.commands is delivered for the first time. *)
Deliver(g) ==
    \E m \in Messages :
        /\ Receive(g, m, sent + 1)
        /\ sent' = sent + 1

(* A redelivery recognised as a duplicate of a delivery still being       *)
(* handled: acknowledged without entering a handler.                      *)
RedeliverDeduplicated(g) ==
    \E h \in Slots :
        /\ InFlight(cb[h])
        /\ cb[h].acks = 0
        /\ delivered < MaxDeliveries
        /\ ~InFlight(cb[g])
        /\ \A k \in Slots : ~InFlight(cb[k]) => Before(g, k)
        /\ delivered' = delivered + 1
        /\ cb' = [cb EXCEPT ![g] = [Idle EXCEPT !.pc = "ack", !.msg = cb[h].msg,
                                                !.seq = cb[h].seq, !.no = delivered + 1]]
        /\ UNCHANGED <<wired, todos, nextId, uuids, sent>>

(* AckWait (30 s) ran out on a delivery not yet acknowledged: the broker  *)
(* delivers the same message again.                                       *)
Redeliver(g) ==
    \E h \in Slots :
        /\ InFlight(cb[h]) \/ cb[h].pc = "crashed"
        /\ cb[h].acks = 0
        /\ Receive(g, cb[h].msg, cb[h].seq)
        /\ UNCHANGED sent

(* HandleCreate, handlers.go:273-297: INSERT ... RETURNING id, created_at *)
(* and Scan.  The statement can fail before the row exists, or the row    *)
(* can be written and Scan fail; either way Scan's error ends the handler.*)
HandleCreate(g) ==
    /\ wired = "main"
    /\ cb[g].pc = "store"
    /\ cb[g].kind = "create"
    /\ \E res \in {"ok", "stmt_err", "scan_err"} :
        LET cmd == CreateTodoCommand(cb[g].msg)
            c == [cb[g] EXCEPT !.dbCalls = @ + 1, !.db = res]
        IN  /\ todos' = IF res = "stmt_err" THEN todos
                        ELSE (nextId :> InsertedRow(cmd, nextId)) @@ todos
            /\ nextId' = IF res = "stmt_err" THEN nextId ELSE nextId + 1
            /\ cb' = [cb EXCEPT ![g] =
                  IF res = "ok"
                  THEN [c EXCEPT !.pc = "publish", !.rows = 1, !.rowId = nextId,
                                 !.evt = TodoCreatedEvent(cmd, DbId(nextId), CreatedAt(nextId))]
                  ELSE [c EXCEPT !.pc = "ack", !.returned = TRUE, !.err = "nil",
                                 !.rows = IF res = "scan_err" THEN 1 ELSE 0]]
    /\ UNCHANGED <<wired, uuids, delivered, sent>>

(* HandleUpdate, handlers.go:299-334: the UPDATE; its command tag (the    *)
(* rows affected) is dropped, the event is built whenever err is nil.     *)
HandleUpdate(g) ==
    /\ wired = "main"
    /\ cb[g].pc = "store"
    /\ cb[g].kind = "update"
    /\ \E res \in {"ok", "err"} :
        LET cmd == UpdateTodoCommand(cb[g].msg)
            c == [cb[g] EXCEPT !.dbCalls = @ + 1, !.db = res]
        IN  /\ todos' = IF res = "ok" THEN UpdateTodos(todos, cmd) ELSE todos
            /\ cb' = [cb EXCEPT ![g] =
                  IF res = "ok"
                  THEN [c EXCEPT !.pc = "publish", !.rows = Cardinality(Matches(todos, cmd)),
                                 !.evt = TodoUpdatedEvent(cmd, Now(c.no))]
                  ELSE [c EXCEPT !.pc = "ack", !.returned = TRUE, !.err = "nil"]]
    /\ UNCHANGED <<wired, nextId, uuids, delivered, sent>>

(* HandleDelete, handlers.go:336-356 *)
HandleDelete(g) ==
    /\ wired = "main"
    /\ cb[g].pc = "store"
    /\ cb[g].kind = "delete"
    /\ \E res \in {"ok", "err"} :
        LET cmd == DeleteTodoCommand(cb[g].msg)
            c == [cb[g] EXCEPT !.dbCalls = @ + 1, !.db = res]
        IN  /\ todos' = IF res = "ok" THEN DeleteTodos(todos, cmd) ELSE todos
            /\ cb' = [cb EXCEPT ![g] =
                  IF res = "ok"
                  THEN [c EXCEPT !.pc = "publish", !.rows = Cardinality(Matches(todos, cmd)),
                                 !.evt = TodoDeletedEvent(cmd, Now(c.no))]
                  ELSE [c EXCEPT !.pc = "ack", !.returned = TRUE, !.err = "nil"]]
    /\ UNCHANGED <<wired, nextId, uuids, delivered, sent>>

(* What the handler hands back after publishEvent ended with res: the     *)
(* Processor of app.Run returns publishEvent's error (handlers.go:44, 64, *)
(* 78); publishEvent of the Processor of main has no result (358-367).    *)
HandlerError(w, res) == IF w = "Run" /\ res # "ok" THEN "err" ELSE "nil"

(* publishEvent sending an event kept in a field of the Processor, which  *)
(* any invocation about to publish may have written last.                 *)
publishEventShared(g) ==
    /\ cb[g].pc = "publish"
    /\ \E res \in {"ok", "marshal_err", "publish_err"} :
       \E h \in {k \in Slots : cb[k].pc = "publish"} :
        cb' = [cb EXCEPT ![g] =
              [@ EXCEPT !.pc = "ack", !.returned = TRUE, !.calls = @ + 1, !.pub = res,
                        !.tries = IF res = "marshal_err" THEN @ ELSE @ + 1,
                        !.pubs = IF res = "ok"
                                 THEN Append(@, [subject |-> "todo.events", evt |-> cb[h].evt])
                                 ELSE @,
                        !.err = HandlerError(wired, res)]]
    /\ UNCHANGED <<wired, todos, nextId, uuids, delivered, sent>>

(* publishEvent called with the subject of the commands. *)
publishEventOnCommands(g) ==
    /\ cb[g].pc = "publish"
    /\ \E res \in {"ok", "marshal_err", "publish_err"} :
        cb' = [cb EXCEPT ![g] =
              [@ EXCEPT !.pc = "ack", !.returned = TRUE, !.calls = @ + 1, !.pub = res,
                        !.tries = IF res = "marshal_err" THEN @ ELSE @ + 1,
                        !.pubs = IF res = "ok"
                                 THEN Append(@, [subject |-> "todo.commands", evt |-> cb[g].evt])
                                 ELSE @,
                        !.err = HandlerError(wired, res)]]
    /\ UNCHANGED <<wired, todos, nextId, uuids, delivered, sent>>

(* publishEvent: json.Marshal, then js.Publish on the subject; the        *)
(* handler returns right after it.                                        *)
publishEvent(g) ==
    /\ cb[g].pc = "publish"
    /\ \E res \in {"ok", "marshal_err", "publish_err"} :
        cb' = [cb EXCEPT ![g] =
              [@ EXCEPT !.pc = "ack", !.returned = TRUE, !.calls = @ + 1, !.pub = res,
                        !.tries = IF res = "marshal_err" THEN @ ELSE @ + 1,
                        !.pubs = IF res = "ok"
                                 THEN Append(@, [subject |-> "todo.events", evt |-> cb[g].evt])
                                 ELSE @,
                        !.err = HandlerError(wired, res)]]
    /\ UNCHANGED <<wired, todos, nextId, uuids, delivered, sent>>

(* An acknowledgment made only when the handler reported no error, and a *)
(* negative one otherwise.                                                *)
AckUnlessError(g) ==
    /\ cb[g].pc = "ack"
    /\ cb' = [cb EXCEPT ![g] =
          IF cb[g].err = "nil" THEN [@ EXCEPT !.pc = "done", !.acks = @ + 1]
          ELSE [@ EXCEPT !.pc = "done", !.naks = @ + 1]]
    /\ UNCHANGED <<wired, todos, nextId, uuids, delivered, sent>>

(* An acknowledgment sent as soon as the message is received, before the *)
(* handler has run.                                                       *)
AckOnReceipt(g) ==
    /\ InFlight(cb[g])
    /\ cb[g].acks = 0 \/ cb[g].pc = "ack"
    /\ cb' = [cb EXCEPT ![g] = [@ EXCEPT !.pc = IF @ = "ack" THEN "done" ELSE @,
                                        !.acks = 1]]
    /\ UNCHANGED <<wired, todos, nextId, uuids, delivered, sent>>

(* m.Ack(), the callback's last statement on every path (408, 429). *)
Ack(g) ==
    /\ cb[g].pc = "ack"
    /\ cb' = [cb EXCEPT ![g] = [@ EXCEPT !.pc = "done", !.acks = @ + 1]]
    /\ UNCHANGED <<wired, todos, nextId, uuids, delivered, sent>>

(* The process dies and is started again: every callback under way ends  *)
(* where it stands, with nothing acknowledged; the table and the stream   *)
(* are other processes and keep what they hold.                           *)
Crash ==
    /\ \E g \in Slots : InFlight(cb[g])
    /\ cb' = [g \in Slots |->
              IF InFlight(cb[g]) THEN [cb[g] EXCEPT !.pc = "crashed"] ELSE cb[g]]
    /\ UNCHANGED <<wired, todos, nextId, uuids, delivered, sent>>

-----------------------------------------------------------------------------

(* The table outlives the process: it starts empty, or with a todo an     *)
(* earlier run inserted.                                                  *)
InitialTodos ==
    { <<>>,
      1 :> InsertedRow(CreateTodoCommand(Msg("CreateTodo", EmptyId, "u1", FullFields, {})), 1) }

Init ==
    /\ wired \in {"main", "Run"}
    /\ todos \in InitialTodos
    /\ nextId = Cardinality(DOMAIN todos) + 1
    /\ uuids = 0
    /\ delivered = 0
    /\ sent = 0
    /\ cb = [g \in Slots |-> Idle]

Next ==
    \E g \in Slots :
        \/ Deliver(g)
        \/ Redeliver(g)
        \/ HandleCreate(g)
        \/ HandleUpdate(g)
        \/ HandleDelete(g)
        \/ publishEvent(g)
        \/ Ack(g)

Spec == Init /\ [][Next]_vars

(* The same program on a host where the process can die. *)
NextCrash == Next \/ Crash

SpecCrash == Init /\ [][NextCrash]_vars

-----------------------------------------------------------------------------
(* Properties *)

(* The handler invoked by the callback in goroutine g has returned. *)
HandlerReturned(c) == c.kind # "none" /\ c.returned

FailedType(kind) ==
    CASE kind = "create" -> "TodoCreateFailed"
      [] kind = "update" -> "TodoUpdateFailed"
      [] kind = "delete" -> "TodoDeleteFailed"
      [] OTHER -> ""

StoreFailed(c) == c.db \in {"stmt_err", "scan_err", "err"}

(* C1: every invocation of HandleCreate, HandleUpdate or HandleDelete has, *)
(* when it returns, handed exactly one event to the publish on todo.events *)
(* (and put at most that one on the broker), whatever the store answered:  *)
(* success, statement or scan error, zero rows affected.                   *)
C1_ExactlyOneEvent ==
    \A g \in Slots :
        HandlerReturned(cb[g]) =>
            /\ cb[g].calls = 1
            /\ cb[g].pub = "ok" => Len(cb[g].pubs) = 1
            /\ Len(cb[g].pubs) <= 1

(* C2: when the insert or the scan fails in HandleCreate, a Created-failed *)
(* event with an empty id and the command's userId is published and the    *)
(* store error is returned.                                                *)
C2_CreateFailurePublishesFailed ==
    \A g \in Slots :
        (HandlerReturned(cb[g]) /\ cb[g].kind = "create" /\ StoreFailed(cb[g])) =>
            /\ cb[g].calls = 1
            /\ cb[g].evt.type = FailedType("create")
            /\ cb[g].evt.id = EmptyId
            /\ cb[g].evt.userId = cb[g].msg.userId
            /\ cb[g].err # "nil"

(* C3: a Create whose insert succeeds calls the store once, publishes      *)
(* exactly one TodoCreated event carrying the id and timestamp the store   *)
(* returned and the command's userId and title, and reports no error.      *)
C3_CreateSuccess ==
    \A g \in Slots :
        (HandlerReturned(cb[g]) /\ cb[g].kind = "create" /\ cb[g].db = "ok") =>
            /\ cb[g].dbCalls = 1
            /\ cb[g].calls = 1
            /\ cb[g].rowId \in 1..(nextId - 1)
            /\ cb[g].evt.type = "TodoCreated"
            /\ cb[g].evt.id = DbId(cb[g].rowId)
            /\ cb[g].evt.timestamp = CreatedAt(cb[g].rowId)
            /\ cb[g].evt.userId = cb[g].msg.userId
            /\ cb[g].evt.title = CreateTodoCommand(cb[g].msg).title
            /\ cb[g].pub = "ok" => cb[g].pubs = <<[subject |-> "todo.events", evt |-> cb[g].evt]>>
            /\ Len(cb[g].pubs) <= 1
            /\ cb[g].err = "nil"

C3_Witness ==
    \E g \in Slots :
        /\ cb[g].pc = "done"
        /\ cb[g].kind = "create"
        /\ cb[g].db = "ok"
        /\ cb[g].msg.bad = {}
        /\ Len(cb[g].pubs) = 1
        /\ cb[g].pubs[1].evt.id = DbId(2)
        /\ cb[g].pubs[1].evt.title = "a"

(* C4: an Update whose (id, userId) matches no row (statement succeeds,   *)
(* zero rows affected) publishes an Updated-failed event and returns a     *)
(* nil error.                                                              *)
C4_UpdateNoRowSoftFailure ==
    \A g \in Slots :
        (HandlerReturned(cb[g]) /\ cb[g].kind = "update" /\ cb[g].db = "ok"
            /\ cb[g].rows = 0) =>
            /\ cb[g].calls = 1
            /\ cb[g].evt.type = FailedType("update")
            /\ cb[g].err = "nil"

(* C5: a Delete whose statement errors or affects zero rows publishes a    *)
(* Deleted-failed event and returns a non-nil error.                       *)
C5_DeleteHardFailure ==
    \A g \in Slots :
        (HandlerReturned(cb[g]) /\ cb[g].kind = "delete"
            /\ (StoreFailed(cb[g]) \/ (cb[g].db = "ok" /\ cb[g].rows = 0))) =>
            /\ cb[g].calls = 1
            /\ cb[g].evt.type = FailedType("delete")
            /\ cb[g].err # "nil"

(* C6: when the update statement fails, HandleUpdate publishes an          *)
(* Updated-failed event with the command's id and userId and returns the   *)
(* error.                                                                  *)
C6_UpdateErrorPublishesFailed ==
    \A g \in Slots :
        (HandlerReturned(cb[g]) /\ cb[g].kind = "update" /\ StoreFailed(cb[g])) =>
            /\ cb[g].calls = 1
            /\ cb[g].evt.type = FailedType("update")
            /\ cb[g].evt.id = cb[g].msg.id
            /\ cb[g].evt.userId = cb[g].msg.userId
            /\ cb[g].err # "nil"

(* C7: every delivery is acknowledged exactly once, never negatively, and  *)
(* not before its handler (if one was invoked) has returned, whether the   *)
(* handler reported an error or not: a callback that has ended has         *)
(* acknowledged once, one still running has not acknowledged yet and has   *)
(* a next step on its way to m.Ack().                                      *)
C7_AckExactlyOnceAfterHandler ==
    \A g \in Slots :
        /\ cb[g].naks = 0
        /\ cb[g].pc = "done" => cb[g].acks = 1
        /\ cb[g].pc # "done" => cb[g].acks = 0
        /\ (cb[g].acks > 0 /\ cb[g].kind # "none") => cb[g].returned
        /\ InFlight(cb[g]) =>
              ENABLED (HandleCreate(g) \/ HandleUpdate(g) \/ HandleDelete(g)
                          \/ publishEvent(g) \/ Ack(g))

C7_Witness ==
    \E g, h \in Slots :
        /\ cb[g].pc = "done" /\ cb[g].kind # "none" /\ cb[g].err = "err" /\ cb[g].acks = 1
        /\ cb[h].pc = "done" /\ cb[h].kind # "none" /\ cb[h].pub = "ok" /\ cb[h].acks = 1

Recognized(m) == m.baseOk /\ m.type \in {"CreateTodo", "UpdateTodo", "DeleteTodo"}

(* C8: a message whose envelope does not decode, or whose type is none of  *)
(* CreateTodo, UpdateTodo, DeleteTodo, is acknowledged and dropped: no     *)
(* handler runs for it, it makes no store call and publishes no event.     *)
C8_UnroutableDropped ==
    \A g \in Slots :
        (cb[g].pc # "idle" /\ ~Recognized(cb[g].msg)) =>
            /\ cb[g].kind = "none"
            /\ cb[g].pc \in {"ack", "done"}
            /\ cb[g].dbCalls = 0
            /\ cb[g].calls = 0
            /\ cb[g].pubs = <<>>
            /\ cb[g].pc = "done" => cb[g].acks = 1

C8_Witness ==
    \E g, h \in Slots :
        /\ cb[g].pc = "done" /\ ~cb[g].msg.baseOk /\ cb[g].acks = 1
        /\ cb[h].pc = "done" /\ cb[h].msg.baseOk /\ cb[h].msg.type = "RenameTodo"
        /\ cb[h].acks = 1

(* C9: the id of every published event is the id the store returned (for   *)
(* a Create), the command's id (for an Update or Delete), or empty (for a  *)
(* failed Create): never one the processor made up.                        *)
C9_EventIdNeverFabricated ==
    \A g \in Slots :
        \A i \in 1..Len(cb[g].pubs) :
            LET e == cb[g].pubs[i].evt
            IN  /\ cb[g].kind = "create" =>
                    \/ cb[g].db = "ok" /\ e.id = DbId(cb[g].rowId)
                    \/ e.type = FailedType("create") /\ e.id = EmptyId
                /\ cb[g].kind \in {"update", "delete"} => e.id = cb[g].msg.id

C11_UpdateSuccessEvent ==
    \A g \in Slots :
        (HandlerReturned(cb[g]) /\ cb[g].kind = "update"
            /\ ((cb[g].db = "ok" /\ cb[g].rows = 1) \/ (wired = "Run" /\ cb[g].pub = "ok"))) =>
            LET cmd == UpdateTodoCommand(cb[g].msg)
                e == cb[g].evt
            IN  /\ cb[g].calls = 1
                /\ Len(cb[g].pubs) <= 1
                /\ cb[g].pub = "ok" => cb[g].pubs = <<[subject |-> "todo.events", evt |-> e]>>
                /\ cb[g].err = "nil"
                /\ e.type = "TodoUpdated"
                /\ e.id = cb[g].msg.id
                /\ e.userId = cb[g].msg.userId
                /\ e.title = (IF cmd.title.some THEN cmd.title.v ELSE "")
                /\ e.description = (IF cmd.description.some THEN cmd.description.v ELSE "")
                /\ e.completed = (IF cmd.completed.some THEN cmd.completed.v ELSE FALSE)
                /\ e.tags.v = (IF cmd.tags.some THEN cmd.tags.v ELSE <<>>)
                /\ e.dueDate = cmd.dueDate
                /\ e.priority = cmd.priority

C11_Witness ==
    \E g \in Slots :
        /\ cb[g].pc = "done" /\ cb[g].kind = "update" /\ cb[g].db = "ok" /\ cb[g].rows = 1
        /\ cb[g].msg.f = PatchB
        /\ Len(cb[g].pubs) = 1
        /\ cb[g].pubs[1].evt.title = ""
        /\ cb[g].pubs[1].evt.description = "e"
        /\ cb[g].pubs[1].evt.completed = FALSE
        /\ 1 \in DOMAIN todos /\ todos[1].title = Some("a")

(* C12: a Delete that affects one row publishes exactly one TodoDeleted   *)
(* event with the command's id and userId and reports no error.           *)
C12_DeleteSuccessEvent ==
    \A g \in Slots :
        (HandlerReturned(cb[g]) /\ cb[g].kind = "delete" /\ cb[g].db = "ok"
            /\ cb[g].rows = 1) =>
            /\ cb[g].dbCalls = 1
            /\ cb[g].calls = 1
            /\ Len(cb[g].pubs) <= 1
            /\ cb[g].pub = "ok" => cb[g].pubs = <<[subject |-> "todo.events", evt |-> cb[g].evt]>>
            /\ cb[g].evt.type = "TodoDeleted"
            /\ cb[g].evt.id = cb[g].msg.id
            /\ cb[g].evt.userId = cb[g].msg.userId
            /\ cb[g].err = "nil"

C12_Witness ==
    \E g \in Slots :
        /\ cb[g].pc = "done" /\ cb[g].kind = "delete" /\ cb[g].db = "ok" /\ cb[g].rows = 1
        /\ Len(cb[g].pubs) = 1
        /\ cb[g].pubs[1].evt.id = DbId(1)
        /\ 1 \notin DOMAIN todos

(* C13: when json.Marshal or js.Publish fails, the handler returns a      *)
(* non-nil error to its caller, and it has called publishEvent once and   *)
(* js.Publish at most once.                                               *)
C13_PublishFailureReturned ==
    \A g \in Slots :
        (HandlerReturned(cb[g]) /\ cb[g].pub \in {"marshal_err", "publish_err"}) =>
            /\ cb[g].err # "nil"
            /\ cb[g].calls = 1
            /\ cb[g].tries <= 1
            /\ cb[g].pubs = <<>>

(* The event and the error of one invocation handled alone, from what is  *)
(* its own: its command, its delivery, the store's answer to its own      *)
(* statement, the result of its own publish.                              *)
AloneEvent(c) ==
    IF wired = "Run"
    THEN EmittedEvent(c.kind, c.msg, c.no, c.evt.id.n)
    ELSE CASE c.kind = "create" ->
                TodoCreatedEvent(CreateTodoCommand(c.msg), DbId(c.rowId), CreatedAt(c.rowId))
           [] c.kind = "update" -> TodoUpdatedEvent(UpdateTodoCommand(c.msg), Now(c.no))
           [] c.kind = "delete" -> TodoDeletedEvent(DeleteTodoCommand(c.msg), Now(c.no))
           [] OTHER -> NoEvent

AloneError(c) == IF wired = "Run" /\ c.pub # "ok" THEN "err" ELSE "nil"

(* C15: when the handlers of two commands run at the same time, under      *)
(* every interleaving each of them builds, publishes and returns what it   *)
(* would alone: the event comes from its own command and from the store's  *)
(* answer to its own statement (the id and created_at of its own INSERT),  *)
(* the event put on the broker is that event, the error is the one of its  *)
(* own publish.                                                            *)
C15_InvocationsIndependent ==
    \A g \in Slots :
        (cb[g].kind # "none" /\ cb[g].pc \in {"publish", "ack", "done"}
            /\ ~StoreFailed(cb[g])) =>
            /\ cb[g].evt = AloneEvent(cb[g])
            /\ cb[g].pubs \in {<<>>, <<[subject |-> "todo.events", evt |-> AloneEvent(cb[g])]>>}
            /\ cb[g].returned => cb[g].err = AloneError(cb[g])

C15_Witness ==
    \E g, h \in Slots :
        /\ g # h
        /\ cb[g].seq # cb[h].seq
        /\ cb[g].kind = "create" /\ cb[h].kind = "update"
        /\ cb[g].pc = "ack" /\ cb[g].pubs # <<>>
        /\ cb[h].pc = "publish"
        /\ cb[g].no < cb[h].no
        /\ cb[g].evt.title # cb[h].evt.title

(* C16: a delivery of a Create not acknowledged within AckWait is          *)
(* delivered again and handled again: the redelivery enters the handler    *)
(* its type selects, and when both INSERTs succeed they make two distinct  *)
(* rows and two Created events with distinct ids for the one command.      *)
C16_RedeliveryHandledAgain ==
    \A g, h \in Slots :
        (g # h /\ cb[g].pc # "idle" /\ cb[h].pc # "idle" /\ cb[g].seq = cb[h].seq) =>
            /\ cb[g].msg = cb[h].msg
            /\ cb[g].kind = Routed(cb[g].msg)
            /\ cb[h].kind = Routed(cb[h].msg)
            /\ (wired = "main" /\ cb[g].kind = "create"
                    /\ cb[g].db = "ok" /\ cb[h].db = "ok") =>
                    /\ cb[g].rowId # cb[h].rowId
                    /\ cb[g].evt.id # cb[h].evt.id
                    /\ cb[g].evt.type = "TodoCreated" /\ cb[h].evt.type = "TodoCreated"

C16_Witness ==
    \E g, h \in Slots :
        /\ g # h
        /\ cb[g].seq = cb[h].seq
        /\ cb[g].kind = "create" /\ cb[h].kind = "create"
        /\ cb[g].pc = "done" /\ cb[h].pc = "done"
        /\ cb[g].rowId # cb[h].rowId
        /\ {cb[g].rowId, cb[h].rowId} \subseteq DOMAIN todos
        /\ todos[cb[g].rowId].title = todos[cb[h].rowId].title
        /\ Len(cb[g].pubs) = 1 /\ Len(cb[h].pubs) = 1
        /\ cb[g].pubs[1].evt.type = "TodoCreated" /\ cb[h].pubs[1].evt.type = "TodoCreated"
        /\ cb[g].pubs[1].evt.id # cb[h].pubs[1].evt.id

MutationApplied(c) ==
    CASE c.kind = "create" -> c.db \in {"ok", "scan_err"}
      [] c.kind \in {"update", "delete"} -> c.db = "ok" /\ c.rows >= 1
      [] OTHER -> FALSE

SuccessTypes == {"TodoCreated", "TodoUpdated", "TodoDeleted"}

(* C18: when the process dies after a handler's statement changed the      *)
(* table and before its event is published, the table keeps the change     *)
(* and the event of that pass is never published; and the store-backed     *)
(* Processor never publishes a success event for a statement that changed  *)
(* nothing.                                                                *)
C18_CrashBetweenStoreAndPublish ==
    [][/\ \A g \in Slots :
            (cb[g].pc = "publish" /\ cb'[g].pc = "crashed" /\ MutationApplied(cb[g])) =>
                /\ todos' = todos
                /\ cb'[g].calls = 0
                /\ cb'[g].pubs = <<>>
       /\ \A g \in Slots :
            (cb[g].pc = "crashed" /\ cb'[g].pc = "crashed") => cb'[g].pubs = cb[g].pubs
       /\ \A g \in Slots :
            (wired = "main" /\ cb'[g].pubs # <<>>
                /\ cb'[g].pubs[1].evt.type \in SuccessTypes) => MutationApplied(cb'[g])
      ]_vars

(* The first half of C18 alone. *)
C18_CrashKeepsStoreAndPublishesNothing ==
    [][/\ \A g \in Slots :
            (cb[g].pc = "publish" /\ cb'[g].pc = "crashed" /\ MutationApplied(cb[g])) =>
                /\ todos' = todos
                /\ cb'[g].calls = 0
                /\ cb'[g].pubs = <<>>
       /\ \A g \in Slots :
            (cb[g].pc = "crashed" /\ cb'[g].pc = "crashed") => cb'[g].pubs = cb[g].pubs
      ]_vars

EventTypeOf(kind) ==
    CASE kind = "create" -> "TodoCreated"
      [] kind = "update" -> "TodoUpdated"
      [] kind = "delete" -> "TodoDeleted"
      [] OTHER -> ""

(* C20: the handler is a function of the envelope's type alone: CreateTodo *)
(* enters HandleCreate, UpdateTodo HandleUpdate, DeleteTodo HandleDelete,  *)
(* anything else (or an envelope that does not decode) no handler; the     *)
(* same bytes delivered again select the same handler; and one delivery    *)
(* runs at most one handler: one store call, one publish, of its kind.     *)
C20_RoutingDeterministic ==
    \A g \in Slots :
        cb[g].pc # "idle" =>
            /\ cb[g].kind =
                  (IF ~cb[g].msg.baseOk THEN "none"
                   ELSE IF cb[g].msg.type = "CreateTodo" THEN "create"
                   ELSE IF cb[g].msg.type = "UpdateTodo" THEN "update"
                   ELSE IF cb[g].msg.type = "DeleteTodo" THEN "delete"
                   ELSE "none")
            /\ \A h \in Slots :
                  (cb[h].pc # "idle" /\ cb[h].msg = cb[g].msg) => cb[h].kind = cb[g].kind
            /\ cb[g].dbCalls <= 1
            /\ cb[g].calls <= 1
            /\ cb[g].evt.type \in {"", EventTypeOf(cb[g].kind)}
            /\ \A i \in 1..Len(cb[g].pubs) : cb[g].pubs[i].evt.type = EventTypeOf(cb[g].kind)

C20_Witness ==
    \E g, h \in Slots :
        /\ g # h
        /\ cb[g].seq = cb[h].seq
        /\ cb[g].msg.type = "DeleteTodo"
        /\ cb[g].kind = "delete" /\ cb[h].kind = "delete"
        /\ cb[g].pc = "done" /\ cb[h].pc = "done"
        /\ cb[g].calls = 1 /\ cb[h].calls = 1

(* C21: when the envelope decodes with a recognized type and decoding the  *)
(* concrete command fails, the error is discarded: the handler of that     *)
(* type still runs, on a command whose undecodable fields are zero, makes  *)
(* its store call and builds its event from that command.                  *)
C21_DecodeErrorDiscarded ==
    \A g \in Slots :
        (cb[g].pc # "idle" /\ Recognized(cb[g].msg) /\ cb[g].msg.bad # {}) =>
            /\ cb[g].kind = Route(cb[g].msg.type)
            /\ cb[g].kind # "none"
            /\ cb[g].pc \in {"ack", "done"} =>
                    /\ cb[g].returned
                    /\ wired = "main" => cb[g].dbCalls = 1
                    /\ cb[g].calls = 1 \/ StoreFailed(cb[g])
            /\ cb[g].evt.type # "" =>
                    /\ "title" \in cb[g].msg.bad => cb[g].evt.title = ""
                    /\ "completed" \in cb[g].msg.bad => cb[g].evt.completed = FALSE
                    /\ \A f \in {"dueDate", "priority"} \ cb[g].msg.bad :
                            cb[g].evt[f] = cb[g].msg.f[f]

C21_Witness ==
    \E g \in Slots :
        /\ wired = "main"
        /\ cb[g].msg = Msg("CreateTodo", EmptyId, "u1", FullFields, {"title"})
        /\ cb[g].pc = "done"
        /\ cb[g].db = "ok"
        /\ cb[g].rowId \in DOMAIN todos
        /\ todos[cb[g].rowId].title = Some("")
        /\ todos[cb[g].rowId].description = Some("d")
        /\ Len(cb[g].pubs) = 1
        /\ cb[g].pubs[1].evt.type = "TodoCreated"
        /\ cb[g].pubs[1].evt.title = ""

(* C22: the kind of an event is the kind of the command behind it:         *)
(* HandleCreate builds and publishes TodoCreated only, HandleUpdate        *)
(* TodoUpdated only, HandleDelete TodoDeleted only; and the event's userId *)
(* is the command's userId.                                                *)
C22_EventKindMatchesCommand ==
    \A g \in Slots :
        LET expected == IF cb[g].msg.type = "CreateTodo" THEN "TodoCreated"
                        ELSE IF cb[g].msg.type = "UpdateTodo" THEN "TodoUpdated"
                        ELSE IF cb[g].msg.type = "DeleteTodo" THEN "TodoDeleted"
                        ELSE "no event"
        IN  /\ cb[g].evt.type # "" =>
                /\ cb[g].evt.type = expected
                /\ cb[g].evt.userId = cb[g].msg.userId
            /\ \A i \in 1..Len(cb[g].pubs) :
                /\ cb[g].pubs[i].evt.type = expected
                /\ cb[g].pubs[i].evt.userId = cb[g].msg.userId

C22_Witness ==
    \E g, h \in Slots :
        /\ cb[g].msg.type = "CreateTodo" /\ cb[g].msg.userId = "u2"
        /\ cb[h].msg.type = "UpdateTodo" /\ cb[h].msg.userId = "u1"
        /\ Len(cb[g].pubs) = 1 /\ Len(cb[h].pubs) = 1
        /\ cb[g].pubs[1].evt.type = "TodoCreated" /\ cb[g].pubs[1].evt.userId = "u2"
        /\ cb[h].pubs[1].evt.type = "TodoUpdated" /\ cb[h].pubs[1].evt.userId = "u1"

(* C23: every message the Processor puts on the broker is on the subject   *)
(* todo.events, never on todo.commands, and the stream the callback is     *)
(* bound to does not capture it: the service is never delivered a message  *)
(* it published.                                                           *)
C23_PublishesOnEventsOnly ==
    \A g \in Slots : \A i \in 1..Len(cb[g].pubs) :
        /\ cb[g].pubs[i].subject = "todo.events"
        /\ cb[g].pubs[i].subject # "todo.commands"
        /\ cb[g].pubs[i].subject \in Streams.todo_events
        /\ ~Consumed(cb[g].pubs[i].subject)

C23_Witness ==
    \E g, h \in Slots :
        /\ g # h
        /\ cb[g].kind = "create" /\ cb[h].kind = "delete"
        /\ cb[g].pc = "done" /\ cb[h].pc = "done"
        /\ Len(cb[g].pubs) = 1 /\ Len(cb[h].pubs) = 1
        /\ cb[g].pubs[1].subject = "todo.events"
        /\ cb[h].pubs[1].subject = "todo.events"
        /\ delivered = 2

====
